---------------------------- MODULE Spec2Model ----------------------------
(***************************************************************************)
(* Model of submarine_detection.py: the passive-sonar estimator.           *)
(*                                                                         *)
(* Numbers.  The program computes in IEEE doubles.  Here a level in dB is  *)
(* an integer count of 1/Scale dB, or one of the three special doubles     *)
(* (+inf, -inf, nan); a distance is an exact fraction num/den; exponents   *)
(* are counted in 1/ExpUnit.  log10 is evaluated to one decimal            *)
(* (Log10Steps steps per decade) and a fractional power by interpolation   *)
(* between the neighbouring integer powers: both are monotone and exact    *)
(* at the decades and at the integer exponents.                            *)
(***************************************************************************)
EXTENDS Integers, Sequences, FiniteSets, TLC

\* ------------------------------------------------------------------ units
\* 1 dB = Scale units; alpha = 0.00004 dB per unit distance = Alpha / Scale.
Scale == 100000
Alpha == 4
\* The spreading-loss coefficient of get_transmission_loss.
Spreading == 20
\* n and p of a profile are counted in tenths: 2.5 is 25.
ExpUnit == 10
\* log10 is resolved to tenths of a decade.
Log10Steps == 10

\* ------------------------------------------------------------- bounds
\* The longest catalog handed to a scan.
MaxCatalog == 3
\* The largest sample count handed to get_snr_for_range_of_distances.
MaxSamples == 4

\* ------------------------------------------------------------ doubles
Fin(n) == [k |-> "fin", v |-> n]
PInf == [k |-> "pinf", v |-> 0]
NInf == [k |-> "ninf", v |-> 0]
NaN == [k |-> "nan", v |-> 0]

IsFin(a) == a.k = "fin"
IsNaN(a) == a.k = "nan"

\* -a
FNeg(a) ==
  CASE a.k = "fin" -> Fin(0 - a.v)
    [] a.k = "pinf" -> NInf
    [] a.k = "ninf" -> PInf
    [] OTHER -> NaN

\* a + b: nan is absorbing, inf + (-inf) is nan, inf absorbs a finite term.
FAdd(a, b) ==
  CASE a.k = "nan" \/ b.k = "nan" -> NaN
    [] a.k = "fin" /\ b.k = "fin" -> Fin(a.v + b.v)
    [] a.k = "fin" -> b
    [] b.k = "fin" -> a
    [] a.k = b.k -> a
    [] OTHER -> NaN

\* a - b
FSub(a, b) == FAdd(a, FNeg(b))

\* c * a for an integer c > 0
FTimes(c, a) == IF a.k = "fin" THEN Fin(c * a.v) ELSE a

\* a > b: false as soon as one side is nan.
FGt(a, b) ==
  CASE a.k = "nan" \/ b.k = "nan" -> FALSE
    [] a.k = "pinf" -> b.k # "pinf"
    [] a.k = "ninf" -> FALSE
    [] OTHER -> b.k = "ninf" \/ (b.k = "fin" /\ a.v > b.v)

\* a < b
FLt(a, b) == FGt(b, a)

\* ---------------------------------------------------------- fractions
Rat(num, den) == [num |-> num, den |-> den]

\* x ** k for an integer k >= 0 (0 ** 0 is 1, as in Python)
RECURSIVE IntPow(_, _)
IntPow(x, k) == IF k = 0 THEN 1 ELSE x * IntPow(x, k - 1)

\* x ** (e / ExpUnit) for a fraction x >= 0: with k the whole part and f the
\* tenths of the exponent, x^k * (1 + (f/10) * (x - 1)), as a fraction.
Pow(x, e) ==
  LET k == e \div ExpUnit
      f == e % ExpUnit
  IN  Rat(IntPow(x.num, k) * (ExpUnit * x.den + f * (x.num - x.den)),
          ExpUnit * IntPow(x.den, k + 1))

\* The whole decades of num/den >= 1.
RECURSIVE Decades(_, _)
Decades(num, den) == IF num >= 10 * den THEN 1 + Decades(num, 10 * den) ELSE 0

\* 100 * 10^(j/10), rounded up, for j = 1..9: the mantissa steps of log10.
MantissaSteps == <<126, 159, 200, 252, 317, 399, 502, 631, 795>>

\* log10(num/den) for num >= den > 0, in units of Scale / Log10Steps.
Log10Up(num, den) ==
  LET d == Decades(num, den)
      m == (100 * num) \div (den * IntPow(10, d))
  IN  (Scale \div Log10Steps)
        * (Log10Steps * d + Cardinality({j \in 1..9 : m >= MantissaSteps[j]}))

\* np.log(x) / np.log(10): -inf at 0 and nan below 0 (NumPy warns, and goes on).
Log10(x) ==
  IF x.num = 0 THEN NInf
  ELSE IF x.num < 0 THEN NaN
  ELSE IF x.num >= x.den THEN Fin(Log10Up(x.num, x.den))
  ELSE Fin(0 - Log10Up(x.den, x.num))

\* ----------------------------------------------------------- profiles
\* System(name=..., L0=..., v0=..., n=..., p=..., A=..., ms=...):
\* L0, v0 and ms as written, n and p in tenths, A in 1/Scale dB.
System(name, L0, v0, n, p, A, ms) ==
  [name |-> name, L0 |-> L0, v0 |-> v0, n |-> n, p |-> p, A |-> A, ms |-> ms]

ohio == System("Ohio", 100, 21, 25, 25, 31250, 25)
lafayette == System("Lafeyette", 103, 8, 28, 25, 7400, 21)
seawolf == System("Seawolf", 94, 20, 23, 25, 10000, 30)
los_angeles == System("Los Angeles", 98, 13, 25, 25, 15000, 30)
typhoon == System("Typhoon", 110, 7, 30, 25, 15000, 28)
red_october == System("Red October", 85, 15, 15, 25, 5000, 28)

subs == <<ohio, lafayette, seawolf, los_angeles, typhoon, red_october>>

\* ------------------------------------------------------- noise model
\* dLcav with the threshold of its docstring, A * (v - 25) ** p, in place of
\* the profile's own.
dLcav_docstring(v, system) ==
  IF v <= 25
  THEN 0
  ELSE LET c == Pow(Rat(v - 25, 1), system.p)
       IN  (system.A * c.num) \div c.den

\* dLcav(v, system): 0 up to the cavitation threshold, A * (v - v0) ** p above.
dLcav(v, system) ==
  IF v <= system.v0
  THEN 0
  ELSE LET c == Pow(Rat(v - system.v0, 1), system.p)
       IN  (system.A * c.num) \div c.den

\* get_noise_level(v, system)
get_noise_level(v, system) ==
  LET y == Pow(Rat(v, system.v0), system.n)
      x == Rat(y.den + y.num, y.den)
  IN  FAdd(FAdd(Fin(Scale * system.L0), FTimes(10, Log10(x))),
           Fin(dLcav(v, system)))

\* get_transmission_loss(r), r a fraction
get_transmission_loss(r) ==
  FAdd(FTimes(Spreading, Log10(r)), Fin((Alpha * r.num) \div r.den))

\* The ratio floored at 0 dB.
get_signal_to_noise_ratio_clamped(v, r, NL, system) ==
  LET snr == FSub(FSub(get_noise_level(v, system), get_transmission_loss(r)),
                  Fin(Scale * NL))
  IN  IF FGt(Fin(0), snr) THEN Fin(0) ELSE snr

\* get_signal_to_noise_ratio(v, r, NL, system), NL in dB
get_signal_to_noise_ratio(v, r, NL, system) ==
  FSub(FSub(get_noise_level(v, system), get_transmission_loss(r)),
       Fin(Scale * NL))

\* ------------------------------------------------------------ outcomes
\* How a call ends: it returns a value, raises, or hands data to the plotter
\* and returns nothing.
Return(value) == [kind |-> "return", value |-> value]
Raise(exc) == [kind |-> "raise", exc |-> exc]
Plot(xs, ys, label) == [kind |-> "plot", xs |-> xs, ys |-> ys, label |-> label]

\* Python's None, and a local name that was never assigned.
None == "<None>"
Unbound == "<unbound>"

\* ------------------------------------------------------ fleet analysis
\* The loudest scan with >= for >: a later equal SNR replaces the earlier.
RECURSIVE LoudestLoop_ge(_, _, _, _, _, _, _)
LoudestLoop_ge(v, r, NL, catalog, i, best_snr, loudest_sub) ==
  IF i > Len(catalog)
  THEN Return(<<loudest_sub, best_snr>>)
  ELSE LET snr == get_signal_to_noise_ratio(v, r, NL, catalog[i])
       IN  IF FGt(snr, best_snr) \/ snr = best_snr
           THEN LoudestLoop_ge(v, r, NL, catalog, i + 1, snr, catalog[i].name)
           ELSE LoudestLoop_ge(v, r, NL, catalog, i + 1, best_snr, loudest_sub)

get_loudest_sub_ge(v, r, NL, catalog) ==
  LoudestLoop_ge(v, r, NL, catalog, 1, NInf, None)

\* get_loudest_sub(v, r, NL, subs): the for loop from index i on, with the
\* loop's locals best_snr and loudest_sub, then the return.
RECURSIVE LoudestLoop(_, _, _, _, _, _, _)
LoudestLoop(v, r, NL, catalog, i, best_snr, loudest_sub) ==
  IF i > Len(catalog)
  THEN Return(<<loudest_sub, best_snr>>)
  ELSE LET snr == get_signal_to_noise_ratio(v, r, NL, catalog[i])
       IN  IF FGt(snr, best_snr)
           THEN LoudestLoop(v, r, NL, catalog, i + 1, snr, catalog[i].name)
           ELSE LoudestLoop(v, r, NL, catalog, i + 1, best_snr, loudest_sub)

get_loudest_sub(v, r, NL, catalog) ==
  LoudestLoop(v, r, NL, catalog, 1, NInf, None)

\* The quietest scan left as the copy of the loudest scan it started from.
get_quietest_sub_copied(v, r, NL, catalog) ==
  get_loudest_sub(v, r, NL, catalog)

\* get_quietest_sub(v, r, NL, subs): the same loop with <; its local
\* quietest_sub is assigned only inside the if, and reading it unassigned at
\* the return raises UnboundLocalError.
RECURSIVE QuietestLoop(_, _, _, _, _, _, _)
QuietestLoop(v, r, NL, catalog, i, best_snr, quietest_sub) ==
  IF i > Len(catalog)
  THEN IF quietest_sub = Unbound
       THEN Raise("UnboundLocalError")
       ELSE Return(<<quietest_sub, best_snr>>)
  ELSE LET snr == get_signal_to_noise_ratio(v, r, NL, catalog[i])
       IN  IF FLt(snr, best_snr)
           THEN QuietestLoop(v, r, NL, catalog, i + 1, snr, catalog[i].name)
           ELSE QuietestLoop(v, r, NL, catalog, i + 1, best_snr, quietest_sub)

get_quietest_sub(v, r, NL, catalog) ==
  QuietestLoop(v, r, NL, catalog, 1, PInf, Unbound)

\* A mapping that puts a new key first.
DictSet_front(d, key, value) ==
  IF \E j \in 1..Len(d) : d[j][1] = key
  THEN [j \in 1..Len(d) |-> IF d[j][1] = key THEN <<key, value>> ELSE d[j]]
  ELSE <<(<<key, value>>)>> \o d

\* A dict as the sequence of its (key, value) items in insertion order.
\* d[key] = value: a key already present keeps its place and gets the value.
DictSet(d, key, value) ==
  IF \E j \in 1..Len(d) : d[j][1] = key
  THEN [j \in 1..Len(d) |-> IF d[j][1] = key THEN <<key, value>> ELSE d[j]]
  ELSE Append(d, <<key, value>>)

\* {sub.name: get_signal_to_noise_ratio(v, r, NL, sub) for sub in subs}
RECURSIVE SnrDict(_, _, _, _, _, _)
SnrDict(v, r, NL, catalog, i, res) ==
  IF i > Len(catalog)
  THEN res
  ELSE SnrDict(v, r, NL, catalog, i + 1,
               DictSet(res, catalog[i].name,
                       get_signal_to_noise_ratio(v, r, NL, catalog[i])))

\* compare_sub_snr_at_v(v, r, NL, subs): the mapping, then its keys and
\* values handed to the bar chart.
compare_sub_snr_at_v(v, r, NL, catalog) ==
  LET res == SnrDict(v, r, NL, catalog, 1, <<>>)
      names == [j \in 1..Len(res) |-> res[j][1]]
      snrs == [j \in 1..Len(res) |-> res[j][2]]
  IN  Plot(names, snrs, "SNR for each submarine")

\* linspace with endpoint=False: step = (stop - start) / num, stop left out.
linspace_open(start, stop, num) ==
  LET delta == stop.num * start.den - start.num * stop.den
      den == start.den * stop.den * num
  IN  [i \in 1..num |->
         Rat(start.num * stop.den * num + (i - 1) * delta, den)]

\* np.linspace(start, stop, num), endpoint included: num samples start +
\* i * step with step = (stop - start) / (num - 1), the last one set to stop.
linspace(start, stop, num) ==
  LET div == num - 1
      delta == stop.num * start.den - start.num * stop.den
      den == start.den * stop.den * div
  IN  [i \in 1..num |->
         IF num = 1 THEN start
         ELSE IF i = num THEN stop
         ELSE Rat(start.num * stop.den * div + (i - 1) * delta, den)]

\* get_snr_for_range_of_distances(v, r, NL, sub, intervals); np.linspace
\* raises ValueError for a negative number of samples.
get_snr_for_range_of_distances(v, r, NL, sub, intervals) ==
  IF intervals < 0
  THEN Raise("ValueError")
  ELSE LET distances == linspace(Rat(1, 1), r, intervals)
           snrs == [i \in 1..intervals |->
                      get_signal_to_noise_ratio(v, distances[i], NL, sub)]
       IN  Plot(distances, snrs, sub.name)

\* print_sub_specs(subs): one entry per sub, in order.
print_sub_specs(catalog) ==
  [kind |-> "print",
   text |-> [i \in 1..Len(catalog) |->
               <<catalog[i].name, catalog[i].ms, catalog[i].L0, catalog[i].v0>>]]

\* ------------------------------------------------------ command line
\* An option or the command missing from the command line.
Absent == "<absent>"

\* float(text), the type=float of every option: the texts that convert, with
\* their values; any other text makes argparse exit with a usage error.
FloatTexts == {"-1", "0", "7", "20", "60", "1000"}
FloatOf(text) ==
  CASE text = "-1" -> 0 - 1
    [] text = "0" -> 0
    [] text = "7" -> 7
    [] text = "20" -> 20
    [] text = "60" -> 60
    [] text = "1000" -> 1000

\* str.lower() on the texts that occur.
Lower(text) ==
  CASE text = "Ohio" -> "ohio"
    [] text = "Lafeyette" -> "lafeyette"
    [] text = "Seawolf" -> "seawolf"
    [] text = "Los Angeles" -> "los angeles"
    [] text = "Typhoon" -> "typhoon"
    [] text = "Red October" -> "red october"
    [] text = "Nautilus" -> "nautilus"
    [] OTHER -> text

\* The sub-commands subparsers.add_parser registers.
RegisteredCommands ==
  {"ls", "compare-snr", "quietest-sub", "loudest-sub", "snr-distance"}

\* add_common_arguments, and the --sub option of snr-distance (type=float).
CommonOptions == {"v", "r", "NL"}
OptionsOf(command) ==
  IF command = "ls" THEN {}
  ELSE IF command = "snr-distance" THEN CommonOptions \cup {"sub"}
  ELSE CommonOptions

\* parser.parse_args(): a usage error (exit status 2) for a command that is
\* not registered, an option the command does not have, a required option
\* that is missing, or a text that float() rejects; else the namespace.
parse_args(argv) ==
  LET given == {o \in {"v", "r", "NL", "sub"} : argv[o] # Absent}
      known == IF argv.command = Absent THEN {} ELSE OptionsOf(argv.command)
  IN  IF argv.command # Absent /\ argv.command \notin RegisteredCommands
      THEN Raise("SystemExit")
      ELSE IF given # known
      THEN Raise("SystemExit")
      ELSE IF \E o \in known : argv[o] \notin FloatTexts
      THEN Raise("SystemExit")
      ELSE Return([o \in {"command"} \cup known |->
                     IF o = "command" THEN argv.command ELSE FloatOf(argv[o])])

\* What a printed (sub, snr) line of main shows, or the exception that
\* get_quietest_sub raised, which main does not catch.
PrintResult(title, res) ==
  IF res.kind = "return"
  THEN [kind |-> "print", text |-> <<title, res.value[1], res.value[2]>>]
  ELSE res

\* main(): parse, then the if/elif chain on args.command.
main(argv) ==
  LET parsed == parse_args(argv)
      args == parsed.value
  IN  IF parsed.kind = "raise" THEN parsed
      ELSE IF args.command = "ls" THEN print_sub_specs(subs)
      ELSE IF args.command = "compare-snr"
      THEN compare_sub_snr_at_v(args.v, Rat(args.r, 1), args.NL, subs)
      ELSE IF args.command = "loudest-sub"
      THEN PrintResult("Loudest Submarine",
                       get_loudest_sub(args.v, Rat(args.r, 1), args.NL, subs))
      ELSE IF args.command = "quietest-sub"
      THEN PrintResult("Quietest Submarine",
                       get_quietest_sub(args.v, Rat(args.r, 1), args.NL, subs))
      ELSE IF args.command = "snr-vs-distance"
      THEN \* args.sub is a float: args.sub.lower() raises before any lookup
           Raise("AttributeError")
      ELSE [kind |-> "help"]

\* ------------------------------------------------------------- inputs
\* A profile with another name: a second vessel of the same class.
Twin(system, name) == [system EXCEPT !.name = name]

ProfileInputs ==
  {ohio, seawolf, typhoon, Twin(typhoon, "Akula"), Twin(seawolf, "Virginia")}

\* Catalogs: ordered, names unique, at most MaxCatalog long, the empty one
\* included.
CatalogInputs ==
  {c \in UNION {[1..n -> ProfileInputs] : n \in 0..MaxCatalog} :
     \A i, j \in 1..Len(c) : i # j => c[i].name # c[j].name}

\* Speeds in knots: at rest, at and around the cavitation thresholds.
SpeedInputs == {0, 7, 20, 21, 25}
\* Distances, the non-positive ones included: nothing in the code rejects them.
DistanceInputs == {Rat(0 - 1, 1), Rat(0, 1), Rat(1, 1), Rat(10, 1), Rat(1000, 1)}
\* Ambient noise in dB.
NoiseInputs == {0, 90}
\* Sample counts.
SampleInputs == (0 - 1)..MaxSamples

\* Command lines.
ArgvInputs ==
  [command : RegisteredCommands \cup {Absent, "snr-vs-distance"},
   v : {"20", "fast", Absent},
   r : {"1000", "0", Absent},
   NL : {"60", Absent},
   sub : {Absent, "seawolf", "Seawolf", "Nautilus", "7"}]

\* --------------------------------------------------------------- state
\* pc: "idle" between calls, "done" when a call has ended; call: the last
\* call, with its arguments and its outcome.
VARIABLES pc, call
vars == <<pc, call>>

Init == pc = "idle" /\ call = [op |-> "none"]

\* A call ends: its arguments and its outcome are what is left of it.
Ended(op, args, result) == [op |-> op, args |-> args, result |-> result]

Call_dLcav ==
  /\ pc = "idle"
  /\ \E v \in SpeedInputs, system \in ProfileInputs :
       call' = Ended("dLcav", [v |-> v, system |-> system],
                     Return(dLcav(v, system)))
  /\ pc' = "done"

Call_get_noise_level ==
  /\ pc = "idle"
  /\ \E v \in SpeedInputs, system \in ProfileInputs :
       call' = Ended("get_noise_level", [v |-> v, system |-> system],
                     Return(get_noise_level(v, system)))
  /\ pc' = "done"

Call_get_transmission_loss ==
  /\ pc = "idle"
  /\ \E r \in DistanceInputs :
       call' = Ended("get_transmission_loss", [r |-> r],
                     Return(get_transmission_loss(r)))
  /\ pc' = "done"

Call_get_signal_to_noise_ratio ==
  /\ pc = "idle"
  /\ \E v \in SpeedInputs, r \in DistanceInputs, NL \in NoiseInputs,
        system \in ProfileInputs :
       call' = Ended("get_signal_to_noise_ratio",
                     [v |-> v, r |-> r, NL |-> NL, system |-> system],
                     Return(get_signal_to_noise_ratio(v, r, NL, system)))
  /\ pc' = "done"

Call_get_loudest_sub ==
  /\ pc = "idle"
  /\ \E v \in SpeedInputs, r \in DistanceInputs, NL \in NoiseInputs,
        catalog \in CatalogInputs :
       call' = Ended("get_loudest_sub",
                     [v |-> v, r |-> r, NL |-> NL, subs |-> catalog],
                     get_loudest_sub(v, r, NL, catalog))
  /\ pc' = "done"

Call_get_quietest_sub ==
  /\ pc = "idle"
  /\ \E v \in SpeedInputs, r \in DistanceInputs, NL \in NoiseInputs,
        catalog \in CatalogInputs :
       call' = Ended("get_quietest_sub",
                     [v |-> v, r |-> r, NL |-> NL, subs |-> catalog],
                     get_quietest_sub(v, r, NL, catalog))
  /\ pc' = "done"

Call_compare_sub_snr_at_v ==
  /\ pc = "idle"
  /\ \E v \in SpeedInputs, r \in DistanceInputs, NL \in NoiseInputs,
        catalog \in CatalogInputs :
       call' = Ended("compare_sub_snr_at_v",
                     [v |-> v, r |-> r, NL |-> NL, subs |-> catalog],
                     compare_sub_snr_at_v(v, r, NL, catalog))
  /\ pc' = "done"

Call_get_snr_for_range_of_distances ==
  /\ pc = "idle"
  /\ \E v \in SpeedInputs, r \in DistanceInputs, NL \in NoiseInputs,
        sub \in ProfileInputs, intervals \in SampleInputs :
       call' = Ended("get_snr_for_range_of_distances",
                     [v |-> v, r |-> r, NL |-> NL, sub |-> sub,
                      intervals |-> intervals],
                     get_snr_for_range_of_distances(v, r, NL, sub, intervals))
  /\ pc' = "done"

Call_main ==
  /\ pc = "idle"
  /\ \E argv \in ArgvInputs :
       call' = Ended("main", [argv |-> argv], main(argv))
  /\ pc' = "done"

\* The caller has taken the outcome; the next call starts from nothing kept.
Finish ==
  /\ pc = "done"
  /\ pc' = "idle"
  /\ call' = [op |-> "none"]

Next ==
  \/ Call_dLcav
  \/ Call_get_noise_level
  \/ Call_get_transmission_loss
  \/ Call_get_signal_to_noise_ratio
  \/ Call_get_loudest_sub
  \/ Call_get_quietest_sub
  \/ Call_compare_sub_snr_at_v
  \/ Call_get_snr_for_range_of_distances
  \/ Call_main
  \/ Finish

Spec == Init /\ [][Next]_vars

\* ========================================================== properties
\* The last call's catalog, and the SNR the model computes for its i-th
\* profile under the call's speed, distance and ambient noise.
Catalog == call.args.subs
SnrOf(i) ==
  get_signal_to_noise_ratio(call.args.v, call.args.r, call.args.NL, Catalog[i])
\* The SNRs of the call are ordered values: none is nan.
Ordered == \A i \in 1..Len(Catalog) : ~IsNaN(SnrOf(i))
\* Every profile of the call has the same SNR.
AllTied == \A i, j \in 1..Len(Catalog) : SnrOf(i) = SnrOf(j)
\* Fractions: equality, order, difference.
RatEq(a, b) == a.num * b.den = b.num * a.den
RatLt(a, b) == a.num * b.den < b.num * a.den
RatDiff(a, b) == Rat(a.num * b.den - b.num * a.den, a.den * b.den)

\* C1: get_loudest_sub on a non-empty catalog whose SNRs are ordered (none
\* is nan) returns the name and the SNR of a profile no other profile
\* exceeds, and of the profiles that share that maximum the one with the
\* smallest index: every earlier profile has a strictly smaller SNR.
C1_LoudestIsFirstMaximum ==
  (call.op = "get_loudest_sub" /\ Len(Catalog) > 0 /\ Ordered) =>
    /\ call.result.kind = "return"
    /\ \E i \in 1..Len(Catalog) :
         /\ call.result.value = <<Catalog[i].name, SnrOf(i)>>
         /\ \A j \in 1..Len(Catalog) : ~FGt(SnrOf(j), SnrOf(i))
         /\ \A j \in 1..(i - 1) : FGt(SnrOf(i), SnrOf(j))

\* C1's case: the maximum is finite and shared by two profiles, a quieter
\* profile stands before them, and the earlier of the two is returned.
C1_Witness ==
  /\ call.op = "get_loudest_sub"
  /\ \E i, j \in 1..Len(Catalog) :
       /\ 1 < i /\ i < j
       /\ IsFin(SnrOf(i)) /\ SnrOf(i) = SnrOf(j)
       /\ FGt(SnrOf(i), SnrOf(1))
       /\ \A m \in 1..Len(Catalog) : ~FGt(SnrOf(m), SnrOf(i))
       /\ call.result = Return(<<Catalog[i].name, SnrOf(i)>>)

\* C2: get_quietest_sub on a non-empty catalog whose SNRs are ordered always
\* returns the name and the SNR of a catalog member no other profile is
\* below, the earliest such member, also when no SNR is below +infinity.
C2_QuietestAlwaysReturnsFirstMinimum ==
  (call.op = "get_quietest_sub" /\ Len(Catalog) > 0 /\ Ordered) =>
    /\ call.result.kind = "return"
    /\ \E i \in 1..Len(Catalog) :
         /\ call.result.value = <<Catalog[i].name, SnrOf(i)>>
         /\ \A j \in 1..Len(Catalog) : ~FLt(SnrOf(j), SnrOf(i))
         /\ \A j \in 1..(i - 1) : FLt(SnrOf(i), SnrOf(j))

\* C3: get_loudest_sub and get_quietest_sub on an empty catalog (the other
\* arguments valid, the distance > 0) end in the
\* reported condition EmptyCatalogError: no (name, snr) is returned and no
\* other exception is raised.
C3_EmptyCatalogIsReported ==
  (/\ call.op \in {"get_loudest_sub", "get_quietest_sub"}
   /\ call.args.r.num > 0
   /\ Len(Catalog) = 0) =>
    call.result = Raise("EmptyCatalogError")

\* The outcome of the other scan on the last call's arguments.
OtherScan ==
  IF call.op = "get_loudest_sub"
  THEN get_quietest_sub(call.args.v, call.args.r, call.args.NL, Catalog)
  ELSE get_loudest_sub(call.args.v, call.args.r, call.args.NL, Catalog)

\* C4: on the same catalog, speed, distance and ambient noise the two scans
\* return the same name only if the catalog has one member or all its SNRs
\* are the same; with two or more members whose ordered SNRs are not all the
\* same, both scans return and their names differ.
C4_SameVesselOnlyIfSingleOrTied ==
  (call.op \in {"get_loudest_sub", "get_quietest_sub"}) =>
    /\ (/\ call.result.kind = "return"
        /\ OtherScan.kind = "return"
        /\ call.result.value[1] = OtherScan.value[1])
         => (Len(Catalog) = 1 \/ AllTied)
    /\ (Len(Catalog) >= 2 /\ Ordered /\ ~AllTied)
         => /\ call.result.kind = "return"
            /\ OtherScan.kind = "return"
            /\ call.result.value[1] # OtherScan.value[1]

\* C4's case: three profiles, two of them tied, not all tied; the quietest
\* scan has returned and the loudest scan returns another name.
C4_Witness ==
  /\ call.op = "get_quietest_sub"
  /\ Len(Catalog) = 3
  /\ ~AllTied
  /\ \E i, j \in 1..3 : i # j /\ SnrOf(i) = SnrOf(j)
  /\ call.result.kind = "return"
  /\ OtherScan.kind = "return"
  /\ call.result.value[1] # OtherScan.value[1]

DeltaInputs == {1, 10, 45}

\* C6: for a distance > 0, get_signal_to_noise_ratio is the noise level minus
\* the transmission loss minus the ambient noise, unclamped, and with the
\* ambient noise raised by d it is lower by exactly d.
C6_SnrLinearInAmbientNoise ==
  (call.op = "get_signal_to_noise_ratio" /\ call.args.r.num > 0) =>
    LET a == call.args
    IN  /\ call.result.kind = "return"
        /\ IsFin(call.result.value)
        /\ call.result.value.v
             = get_noise_level(a.v, a.system).v - get_transmission_loss(a.r).v
                 - Scale * a.NL
        /\ \A d \in DeltaInputs :
             get_signal_to_noise_ratio(a.v, a.r, a.NL + d, a.system)
               = Fin(call.result.value.v - Scale * d)

\* C6's case: the signal is below the ambient noise, the result negative.
C6_Witness ==
  /\ call.op = "get_signal_to_noise_ratio"
  /\ call.args.r.num > 0
  /\ call.result.kind = "return"
  /\ IsFin(call.result.value)
  /\ call.result.value.v < 0

\* The command line names the SNR-versus-distance command (as registered or
\* as dispatched) with all its options given, its numbers well formed and
\* its distance > 0.
C7_Invoked ==
  /\ call.op = "main"
  /\ call.args.argv.command \in {"snr-distance", "snr-vs-distance"}
  /\ \A o \in {"v", "r", "NL"} : call.args.argv[o] \in FloatTexts
  /\ FloatOf(call.args.argv.r) > 0
  /\ call.args.argv.sub # Absent

\* C7: the SNR-versus-distance command looks the vessel up without regard to
\* case; with a match it renders that vessel's series, without one it
\* reports the requested name and the available names and renders nothing.
C7_SnrVsDistanceLooksUpVessel ==
  C7_Invoked =>
    LET text == call.args.argv.sub
        hits == {i \in 1..Len(subs) : Lower(subs[i].name) = Lower(text)}
    IN  IF hits # {}
        THEN /\ call.result.kind = "plot"
             /\ \E i \in hits : call.result.label = subs[i].name
        ELSE /\ call.result.kind = "print"
             /\ call.result.text
                  = <<"not found", text, [i \in 1..Len(subs) |-> subs[i].name]>>

\* C8: a distance <= 0 handed to get_transmission_loss, to
\* get_signal_to_noise_ratio or to a scan of a non-empty catalog is reported
\* as InvalidParameterError, and no value is returned.
C8_NonPositiveDistanceIsRejected ==
  (/\ call.op \in {"get_transmission_loss", "get_signal_to_noise_ratio",
                   "get_loudest_sub", "get_quietest_sub"}
   /\ call.args.r.num <= 0
   /\ call.op \in {"get_loudest_sub", "get_quietest_sub"} => Len(Catalog) > 0)
    => call.result = Raise("InvalidParameterError")

\* C9: with intervals >= 2 and r >= 1, get_snr_for_range_of_distances hands
\* on exactly intervals distances and as many SNRs: the first distance is 1,
\* the last is r, neighbours are (r - 1) / (intervals - 1) apart (so the
\* distances never decrease, and increase when r > 1), no distance is 0,
\* and each SNR is get_signal_to_noise_ratio at its distance.
C9_SeriesSamples ==
  (/\ call.op = "get_snr_for_range_of_distances"
   /\ call.args.intervals >= 2
   /\ ~RatLt(call.args.r, Rat(1, 1))) =>
    LET a == call.args
        n == a.intervals
        xs == call.result.xs
        ys == call.result.ys
    IN  /\ call.result.kind = "plot"
        /\ Len(xs) = n /\ Len(ys) = n
        /\ RatEq(xs[1], Rat(1, 1))
        /\ RatEq(xs[n], a.r)
        /\ \A i \in 1..(n - 1) :
             /\ RatEq(RatDiff(xs[i + 1], xs[i]),
                      Rat(a.r.num - a.r.den, a.r.den * (n - 1)))
             /\ ~RatLt(xs[i + 1], xs[i])
             /\ RatLt(Rat(1, 1), a.r) => RatLt(xs[i], xs[i + 1])
        /\ \A i \in 1..n :
             /\ xs[i].num # 0
             /\ ys[i] = get_signal_to_noise_ratio(a.v, xs[i], a.NL, a.sub)

\* C9's case: three or more samples up to a distance above 1, an inner
\* sample at a fractional distance, the last sample at r.
C9_Witness ==
  /\ call.op = "get_snr_for_range_of_distances"
  /\ call.args.intervals >= 3
  /\ RatLt(Rat(1, 1), call.args.r)
  /\ call.result.kind = "plot"
  /\ Len(call.result.xs) = call.args.intervals
  /\ call.result.xs[2].num % call.result.xs[2].den # 0
  /\ RatEq(call.result.xs[call.args.intervals], call.args.r)

\* C10: the mapping of compare_sub_snr_at_v has one entry per catalog
\* member, in catalog order: as many keys and values as the catalog is long,
\* the i-th key the i-th member's name, the i-th value that member's SNR.
C10_CompareAllInCatalogOrder ==
  (call.op = "compare_sub_snr_at_v") =>
    /\ call.result.kind = "plot"
    /\ Len(call.result.xs) = Len(Catalog)
    /\ Len(call.result.ys) = Len(Catalog)
    /\ \A i \in 1..Len(Catalog) :
         /\ call.result.xs[i] = Catalog[i].name
         /\ call.result.ys[i] = SnrOf(i)

\* C10's case: a catalog of three profiles with three different SNRs.
C10_Witness ==
  /\ call.op = "compare_sub_snr_at_v"
  /\ Len(Catalog) = 3
  /\ \A i, j \in 1..3 : i # j => SnrOf(i) # SnrOf(j)
  /\ call.result.kind = "plot"
  /\ Len(call.result.xs) = 3
=============================================================================
